---- MODULE Spec2Model ----
(***************************************************************************)
(* State-machine model of NavigateX.cpp: the AVLTree class and the Graph   *)
(* class.  Strings are sequences of character codes, so that string        *)
(* comparison (operator<) and toLower are computed as the code computes    *)
(* them.  Pointers to exclusively owned nodes are modelled by value.       *)
(***************************************************************************)
EXTENDS Integers, Sequences, FiniteSets, TLC

VARIABLES root, nameToNode, nodeToName, adj, last,
          run, queue, processedItems, table, capacity, size, trie, head

vars == <<root, nameToNode, nodeToName, adj, last,
          run, queue, processedItems, table, capacity, size, trie, head>>

avlVars == <<root>>

graphVars == <<nameToNode, nodeToName, adj>>

\* the locals of a shortestPath call that is under way
dijkstraVars == <<run>>

\* the queue and the processed items of the browser front end
queueVars == <<queue, processedItems>>

\* the members of CustomHashTable
hashVars == <<table, capacity, size>>

\* the Trie (its root node) and the BusRoute (its list, from head)
trieVars == <<trie>>

routeVars == <<head>>

\* everything but the AVL tree and the Graph
restVars == <<dijkstraVars, queueVars, hashVars, trieVars, routeVars>>

(***************************************************************************)
(* Bounds of the model.                                                    *)
(***************************************************************************)
\* number of distinct keys offered to AVLTree::insert / remove
NumKeys == 5

\* number of distinct values offered to AVLTree::insert
NumValues == 2

\* addLocation creates a new location only while fewer than MaxNodes exist
MaxNodes == 3

\* number of distinct names offered to the Graph operations
NumNames == 4

\* addEdge is called with the weights -NegWeights..-1 and 1..MaxWeight
NegWeights == 1

MaxWeight == 1

\* addEdge adds entries only while the adjacency lists hold at most MaxAdj
MaxAdj == 4

\* the front end's queue: NumItems texts are offered, and at most MaxQueued
\* items are in the queue and the processed list together
NumItems == 4

MaxQueued == 4

\* the hash table is constructed with InitialCapacity buckets and called
\* with NumHashKeys keys and NumHashValues values
InitialCapacity == 2

NumHashKeys == 4

NumHashValues == 2

\* the trie is given NumWords words and asked for NumPrefixes prefixes
NumWords == 6

NumPrefixes == 6

\* the bus route is given NumStops stop names and holds at most MaxStops
\* stops
NumStops == 3

MaxStops == 4

\* the graphs shortestPath is stepped through: at most DijkstraNodes
\* locations, DijkstraAdj adjacency entries
DijkstraNodes == 3

DijkstraAdj == 6

\* the graphs the traversals are exercised on: at most WalkNodes locations
\* and WalkAdj adjacency entries (two per edge), built from NumWalkNames names
WalkNodes == 4

WalkAdj == 6

NumWalkNames == 4

\* const int INF = numeric_limits<int>::max()
INF == 2147483647

(***************************************************************************)
(* Strings.                                                                *)
(***************************************************************************)
max(a, b) == IF a >= b THEN a ELSE b

\* ::tolower on one character code (ASCII 'A'..'Z' -> 'a'..'z')
tolower(c) == IF c >= 65 /\ c <= 90 THEN c + 32 ELSE c

toLower(s) == [i \in 1..Len(s) |-> tolower(s[i])]

RECURSIVE StrLess(_, _)
\* std::string operator< : lexicographic comparison of the characters
StrLess(a, b) ==
    IF Len(b) = 0 THEN FALSE
    ELSE IF Len(a) = 0 THEN TRUE
    ELSE IF a[1] < b[1] THEN TRUE
    ELSE IF a[1] > b[1] THEN FALSE
    ELSE StrLess(Tail(a), Tail(b))

\* the keys the AVL operations are called with:
\* "a", "b", "ab", "B", "aa", "c", "ba"
KeyList == << <<97>>, <<98>>, <<97, 98>>, <<66>>, <<97, 97>>, <<99>>, <<98, 97>> >>

Keys == {KeyList[i] : i \in 1..NumKeys}

Values == 1..NumValues

(***************************************************************************)
(* AVL tree.  A node is <<key, value, left, right, height>>; the null      *)
(* pointer is the empty tuple.                                             *)
(***************************************************************************)
Nil == <<>>

AVLNode(k, v) == <<k, v, Nil, Nil, 1>>

Key(n) == n[1]

Value(n) == n[2]

Left(n) == n[3]

Right(n) == n[4]

getHeight(node) == IF node = Nil THEN 0 ELSE node[5]

getBalanceLeftTwice(node) ==
    IF node = Nil THEN 0 ELSE getHeight(Left(node)) - getHeight(Left(node))

getBalance(node) ==
    IF node = Nil THEN 0 ELSE getHeight(Left(node)) - getHeight(Right(node))

rightRotateSwapped(y) ==
    LET x  == Left(y)
        T2 == Right(x)
        y2 == <<Key(y), Value(y), T2, Right(y),
                max(getHeight(T2), getHeight(Right(y))) + 1>>
    IN  <<Key(x), Value(x), y2, Left(x),
          max(getHeight(y2), getHeight(Left(x))) + 1>>

rightRotate(y) ==
    LET x  == Left(y)
        T2 == Right(x)
        y2 == <<Key(y), Value(y), T2, Right(y),
                max(getHeight(T2), getHeight(Right(y))) + 1>>
    IN  <<Key(x), Value(x), Left(x), y2,
          max(getHeight(Left(x)), getHeight(y2)) + 1>>

leftRotateStaleHeight(x) ==
    LET y  == Right(x)
        T2 == Left(y)
        x2 == <<Key(x), Value(x), Left(x), T2,
                max(getHeight(Left(x)), getHeight(T2)) + 1>>
    IN  <<Key(y), Value(y), x2, Right(y),
          max(getHeight(x), getHeight(Right(y))) + 1>>

leftRotate(x) ==
    LET y  == Right(x)
        T2 == Left(y)
        x2 == <<Key(x), Value(x), Left(x), T2,
                max(getHeight(Left(x)), getHeight(T2)) + 1>>
    IN  <<Key(y), Value(y), x2, Right(y),
          max(getHeight(x2), getHeight(Right(y))) + 1>>

\* the part of insertHelper after the recursive call (lines 675-696)
insertRebalance(n0, key) ==
    LET node == <<Key(n0), Value(n0), Left(n0), Right(n0),
                  1 + max(getHeight(Left(n0)), getHeight(Right(n0)))>>
        balance == getBalance(node)
    IN  IF balance > 1 /\ StrLess(key, Key(Left(node))) THEN rightRotate(node)
        ELSE IF balance < -1 /\ StrLess(Key(Right(node)), key) THEN leftRotate(node)
        ELSE IF balance > 1 /\ StrLess(Key(Left(node)), key) THEN
            rightRotate(<<Key(node), Value(node), leftRotate(Left(node)),
                          Right(node), node[5]>>)
        ELSE IF balance < -1 /\ StrLess(key, Key(Right(node))) THEN
            leftRotate(<<Key(node), Value(node), Left(node),
                         rightRotate(Right(node)), node[5]>>)
        ELSE node

RECURSIVE insertHelperNoOverwrite(_, _, _)
insertHelperNoOverwrite(node, key, value) ==
    IF node = Nil THEN AVLNode(key, value)
    ELSE IF StrLess(key, Key(node)) THEN
        insertRebalance(<<Key(node), Value(node),
                          insertHelperNoOverwrite(Left(node), key, value),
                          Right(node), node[5]>>, key)
    ELSE IF StrLess(Key(node), key) THEN
        insertRebalance(<<Key(node), Value(node), Left(node),
                          insertHelperNoOverwrite(Right(node), key, value),
                          node[5]>>, key)
    ELSE node

RECURSIVE insertHelper(_, _, _)
insertHelper(node, key, value) ==
    IF node = Nil THEN AVLNode(key, value)
    ELSE IF StrLess(key, Key(node)) THEN
        insertRebalance(<<Key(node), Value(node),
                          insertHelper(Left(node), key, value),
                          Right(node), node[5]>>, key)
    ELSE IF StrLess(Key(node), key) THEN
        insertRebalance(<<Key(node), Value(node), Left(node),
                          insertHelper(Right(node), key, value), node[5]>>, key)
    ELSE <<Key(node), value, Left(node), Right(node), node[5]>>

minValueNodeNoDescent(node) == node

RECURSIVE minValueNode(_)
minValueNode(node) ==
    IF Left(node) # Nil THEN minValueNode(Left(node)) ELSE node

\* the part of deleteHelper after the removal (lines 733-756)
deleteRebalance(n0) ==
    IF n0 = Nil THEN n0
    ELSE
    LET node == <<Key(n0), Value(n0), Left(n0), Right(n0),
                  1 + max(getHeight(Left(n0)), getHeight(Right(n0)))>>
        balance == getBalance(node)
    IN  IF balance > 1 /\ getBalance(Left(node)) >= 0 THEN rightRotate(node)
        ELSE IF balance > 1 /\ getBalance(Left(node)) < 0 THEN
            rightRotate(<<Key(node), Value(node), leftRotate(Left(node)),
                          Right(node), node[5]>>)
        ELSE IF balance < -1 /\ getBalance(Right(node)) <= 0 THEN leftRotate(node)
        ELSE IF balance < -1 /\ getBalance(Right(node)) > 0 THEN
            leftRotate(<<Key(node), Value(node), Left(node),
                         rightRotate(Right(node)), node[5]>>)
        ELSE node

RECURSIVE deleteHelper(_, _)
deleteHelper(node, key) ==
    IF node = Nil THEN node
    ELSE IF StrLess(key, Key(node)) THEN
        deleteRebalance(<<Key(node), Value(node), deleteHelper(Left(node), key),
                          Right(node), node[5]>>)
    ELSE IF StrLess(Key(node), key) THEN
        deleteRebalance(<<Key(node), Value(node), Left(node),
                          deleteHelper(Right(node), key), node[5]>>)
    ELSE IF Left(node) = Nil \/ Right(node) = Nil THEN
        \* temp is the only child, or null: *node = *temp, or node = nullptr
        deleteRebalance(IF Left(node) # Nil THEN Left(node) ELSE Right(node))
    ELSE
        LET temp == minValueNode(Right(node))
        IN  deleteRebalance(<<Key(temp), Value(temp), Left(node),
                              deleteHelper(Right(node), Key(temp)), node[5]>>)

RECURSIVE searchHelperWrongWay(_, _)
searchHelperWrongWay(node, key) ==
    IF node = Nil \/ Key(node) = key THEN node
    ELSE IF StrLess(Key(node), key) THEN searchHelperWrongWay(Left(node), key)
    ELSE searchHelperWrongWay(Right(node), key)

RECURSIVE searchHelper(_, _)
searchHelper(node, key) ==
    IF node = Nil \/ Key(node) = key THEN node
    ELSE IF StrLess(key, Key(node)) THEN searchHelper(Left(node), key)
    ELSE searchHelper(Right(node), key)

RECURSIVE inorderHelper(_)
inorderHelper(node) ==
    IF node = Nil THEN <<>>
    ELSE inorderHelper(Left(node)) \o << <<Key(node), Value(node)>> >>
         \o inorderHelper(Right(node))

\* AVLTree::search: <<found, value>> (a null pointer is <<FALSE, 0>>)
search(r, key) ==
    LET node == searchHelper(r, key)
    IN  IF node = Nil THEN <<FALSE, 0>> ELSE <<TRUE, Value(node)>>

inorderTraversal(r) == inorderHelper(r)

\* whether the node that holds key has two children (the else branch of
\* deleteHelper, lines 725-730)
HasTwoChildren(r, key) ==
    LET node == searchHelper(r, key)
    IN  node # Nil /\ Left(node) # Nil /\ Right(node) # Nil

\* AVLTree::insert.  last also records whether the key was present before.
Insert(key, value) ==
    /\ root' = insertHelper(root, key, value)
    /\ last' = [op |-> "insert", key |-> key, value |-> value, ret |-> TRUE,
                present |-> search(root, key)[1]]
    /\ UNCHANGED <<graphVars, restVars>>

RemoveNoSearch(key) ==
    /\ root' = deleteHelper(root, key)
    /\ last' = [op |-> "remove", key |-> key, value |-> 0, ret |-> TRUE,
                two |-> HasTwoChildren(root, key)]
    /\ UNCHANGED <<graphVars, restVars>>

\* AVLTree::remove.  last also records whether the removed node had two
\* children.
Remove(key) ==
    /\ IF ~search(root, key)[1]
       THEN /\ root' = root
            /\ last' = [op |-> "remove", key |-> key, value |-> 0,
                        ret |-> FALSE, two |-> FALSE]
       ELSE /\ root' = deleteHelper(root, key)
            /\ last' = [op |-> "remove", key |-> key, value |-> 0,
                        ret |-> TRUE, two |-> HasTwoChildren(root, key)]
    /\ UNCHANGED <<graphVars, restVars>>


(***************************************************************************)
(* Graph.  Ids are 0-based as in the code; nodeToName and adj are vectors, *)
(* so the entry of id i is at index i + 1.  An adjacency entry is the pair *)
(* <<neighbour id, weight>>.  A graph value g is the three members.        *)
(***************************************************************************)
\* the names the Graph operations are called with: "a", "A", "b", "", "c", "B"
NameList == << <<97>>, <<65>>, <<98>>, <<>>, <<99>>, <<66>> >>

Names == {NameList[i] : i \in 1..NumNames}

Weights == {0 - w : w \in 1..NegWeights} \cup (1..MaxWeight)

\* the names the traversals are exercised with: "a", "b", "", "c", "A", "B".
\* The graph is built from the first NumWalkNames of them, and a traversal
\* may start from one name more.
WalkNameList == << <<97>>, <<98>>, <<>>, <<99>>, <<65>>, <<66>> >>

WalkNames == {WalkNameList[i] : i \in 1..NumWalkNames}

StartNames == {WalkNameList[i] : i \in 1..(NumWalkNames + 1)}

EmptyMap == [k \in {} |-> 0]

Graph(n2n, n2name, a) == [nameToNode |-> n2n, nodeToName |-> n2name, adj |-> a]

\* the keys of nameToNode that match name case-insensitively (the loop of
\* addLocation, hasLocation and getActualLocationName)
Matches(g, name) ==
    {k \in DOMAIN g.nameToNode : toLower(k) = toLower(name)}

addLocationExact(g, name) ==
    IF name \in DOMAIN g.nameToNode
    THEN [g |-> g, id |-> g.nameToNode[name]]
    ELSE LET id == Len(g.nodeToName)
         IN  [g |-> Graph([k \in DOMAIN g.nameToNode \cup {name} |->
                              IF k = name THEN id ELSE g.nameToNode[k]],
                          Append(g.nodeToName, name),
                          Append(g.adj, <<>>)),
              id |-> id]

addLocationLowerName(g, name) ==
    IF Matches(g, name) # {}
    THEN [g |-> g, id |-> g.nameToNode[CHOOSE k \in Matches(g, name) : TRUE]]
    ELSE LET id == Len(g.nodeToName)
         IN  [g |-> Graph([k \in DOMAIN g.nameToNode \cup {name} |->
                              IF k = name THEN id ELSE g.nameToNode[k]],
                          Append(g.nodeToName, toLower(name)),
                          Append(g.adj, <<>>)),
              id |-> id]

\* Graph::addLocation: the new graph and the returned id
addLocation(g, name) ==
    IF Matches(g, name) # {}
    THEN [g |-> g, id |-> g.nameToNode[CHOOSE k \in Matches(g, name) : TRUE]]
    ELSE LET id == Len(g.nodeToName)
         IN  [g |-> Graph([k \in DOMAIN g.nameToNode \cup {name} |->
                              IF k = name THEN id ELSE g.nameToNode[k]],
                          Append(g.nodeToName, name),
                          Append(g.adj, <<>>)),
              id |-> id]

\* index of the first entry of edges whose neighbour is v, 0 if none
FirstEdgeTo(edges, v) ==
    IF \E i \in 1..Len(edges) : edges[i][1] = v
    THEN CHOOSE i \in 1..Len(edges) :
             /\ edges[i][1] = v
             /\ \A j \in 1..(i - 1) : edges[j][1] # v
    ELSE 0

addEdgeOneWay(g0, uName, vName, w) ==
    LET r1 == addLocation(g0, uName)
        r2 == addLocation(r1.g, vName)
        g  == r2.g
        u  == r1.id
        v  == r2.id
        i  == FirstEdgeTo(g.adj[u + 1], v)
    IN  IF i # 0
        THEN [g |-> Graph(g.nameToNode, g.nodeToName,
                          [g.adj EXCEPT ![u + 1][i] = <<v, w>>]),
              ret |-> "updated", u |-> u, v |-> v]
        ELSE LET a1 == [g.adj EXCEPT ![u + 1] = Append(@, <<v, w>>)]
                 a2 == [a1 EXCEPT ![v + 1] = Append(@, <<u, w>>)]
             IN  [g |-> Graph(g.nameToNode, g.nodeToName, a2),
                  ret |-> "added", u |-> u, v |-> v]

addEdgeAlwaysPush(g0, uName, vName, w) ==
    LET r1 == addLocation(g0, uName)
        r2 == addLocation(r1.g, vName)
        g  == r2.g
        u  == r1.id
        v  == r2.id
        a1 == [g.adj EXCEPT ![u + 1] = Append(@, <<v, w>>)]
        a2 == [a1 EXCEPT ![v + 1] = Append(@, <<u, w>>)]
    IN  [g |-> Graph(g.nameToNode, g.nodeToName, a2),
         ret |-> "added", u |-> u, v |-> v]

addEdgeExistingOnly(g0, uName, vName, w) ==
    IF Matches(g0, uName) = {} \/ Matches(g0, vName) = {}
    THEN [g |-> g0, ret |-> "rejected", u |-> 0, v |-> 0]
    ELSE LET g  == g0
             u  == addLocation(g0, uName).id
             v  == addLocation(g0, vName).id
             i  == FirstEdgeTo(g.adj[u + 1], v)
         IN  IF i # 0
             THEN LET a1 == [g.adj EXCEPT ![u + 1][i] = <<v, w>>]
                      j  == FirstEdgeTo(a1[v + 1], u)
                      a2 == IF j # 0 THEN [a1 EXCEPT ![v + 1][j] = <<u, w>>]
                            ELSE a1
                  IN  [g |-> Graph(g.nameToNode, g.nodeToName, a2),
                       ret |-> "updated", u |-> u, v |-> v]
             ELSE LET a1 == [g.adj EXCEPT ![u + 1] = Append(@, <<v, w>>)]
                      a2 == [a1 EXCEPT ![v + 1] = Append(@, <<u, w>>)]
                  IN  [g |-> Graph(g.nameToNode, g.nodeToName, a2),
                       ret |-> "added", u |-> u, v |-> v]

\* Graph::addEdge: the new graph, whether an entry was updated or added, and
\* the resolved ids
addEdge(g0, uName, vName, w) ==
    LET r1 == addLocation(g0, uName)
        r2 == addLocation(r1.g, vName)
        g  == r2.g
        u  == r1.id
        v  == r2.id
        i  == FirstEdgeTo(g.adj[u + 1], v)
    IN  IF i # 0
        THEN LET a1 == [g.adj EXCEPT ![u + 1][i] = <<v, w>>]
                 j  == FirstEdgeTo(a1[v + 1], u)
                 a2 == IF j # 0 THEN [a1 EXCEPT ![v + 1][j] = <<u, w>>] ELSE a1
             IN  [g |-> Graph(g.nameToNode, g.nodeToName, a2),
                  ret |-> "updated", u |-> u, v |-> v]
        ELSE LET a1 == [g.adj EXCEPT ![u + 1] = Append(@, <<v, w>>)]
                 a2 == [a1 EXCEPT ![v + 1] = Append(@, <<u, w>>)]
             IN  [g |-> Graph(g.nameToNode, g.nodeToName, a2),
                  ret |-> "added", u |-> u, v |-> v]

hasLocation(g, name) == Matches(g, name) # {}

getActualLocationName(g, name) ==
    IF Matches(g, name) # {} THEN CHOOSE k \in Matches(g, name) : TRUE ELSE name

\* priority_queue<pair<int,int>, ..., greater<>>::top: the least pair.  Every
\* push carries a strictly smaller dist[v] than any earlier push for v, so
\* the queue never holds two equal pairs and is modelled as a set.
PQTop(pq) ==
    CHOOSE p \in pq : \A q \in pq :
        p[1] < q[1] \/ (p[1] = q[1] /\ p[2] <= q[2])

RECURSIVE RelaxEdges(_, _, _)
\* the for loop over adj[u] (lines 290-299), edges = the entries still to do
RelaxEdges(st, u, edges) ==
    IF edges = <<>> THEN st
    ELSE LET v == edges[1][1]
             w == edges[1][2]
         IN  IF st.dist[u + 1] + w < st.dist[v + 1]
             THEN LET d == st.dist[u + 1] + w
                  IN  RelaxEdges([dist    |-> [st.dist EXCEPT ![v + 1] = d],
                                  parent  |-> [st.parent EXCEPT ![v + 1] = u],
                                  visited |-> st.visited,
                                  pq      |-> st.pq \cup {<<d, v>>}],
                                 u, Tail(edges))
             ELSE RelaxEdges(st, u, Tail(edges))

\* one iteration of the while loop (lines 283-299)
DijkstraStep(g, st) ==
    LET cur == PQTop(st.pq)
        u   == cur[2]
        st1 == [st EXCEPT !.pq = st.pq \ {cur}]
    IN  IF st1.visited[u + 1] THEN st1
        ELSE RelaxEdges([st1 EXCEPT !.visited[u + 1] = TRUE], u, g.adj[u + 1])

RECURSIVE DijkstraLoop(_, _)
\* while (!pq.empty())
DijkstraLoop(g, st) ==
    IF st.pq = {} THEN st ELSE DijkstraLoop(g, DijkstraStep(g, st))

RECURSIVE WalkParents(_, _, _, _, _)
\* while (cur != -1) (lines 307-312).  A walk longer than the number of
\* nodes has entered a cycle of parent[] and never ends: the result is
\* <<FALSE, ...>>; otherwise <<TRUE, pathOut before the reverse>>.
WalkParents(g, parent, cur, path, steps) ==
    IF cur = -1 THEN <<TRUE, path>>
    ELSE IF steps > Len(g.nodeToName) THEN <<FALSE, path>>
    ELSE WalkParents(g, parent, parent[cur + 1],
                     IF g.nodeToName[cur + 1] # <<>>
                     THEN Append(path, g.nodeToName[cur + 1]) ELSE path,
                     steps + 1)

Reverse(s) == [i \in 1..Len(s) |-> s[Len(s) + 1 - i]]

DijkstraInit(g, s) ==
    LET n == Len(g.nodeToName)
    IN  [dist    |-> [i \in 1..n |-> IF i = s + 1 THEN 0 ELSE INF],
         parent  |-> [i \in 1..n |-> -1],
         visited |-> [i \in 1..n |-> FALSE],
         pq      |-> {<<0, s>>}]

shortestPathNoInfCheck(g, srcName0, destName0) ==
    LET srcName  == getActualLocationName(g, srcName0)
        destName == getActualLocationName(g, destName0)
    IN  IF ~hasLocation(g, srcName) \/ ~hasLocation(g, destName)
        THEN [returns |-> TRUE, ret |-> FALSE, path |-> <<>>, dist |-> INF]
        ELSE LET s  == g.nameToNode[srcName]
                 t  == g.nameToNode[destName]
                 st == DijkstraLoop(g, DijkstraInit(g, s))
                 wk == WalkParents(g, st.parent, t, <<>>, 0)
             IN  IF ~wk[1]
                 THEN [returns |-> FALSE, ret |-> FALSE, path |-> <<>>,
                       dist |-> INF]
                 ELSE [returns |-> TRUE, ret |-> TRUE,
                       path |-> Reverse(wk[2]), dist |-> st.dist[t + 1]]

\* Graph::shortestPath after its while loop (lines 302-317), from the locals
\* st the loop has left
afterLoop(g, st, t) ==
    IF st.dist[t + 1] = INF
    THEN [returns |-> TRUE, ret |-> FALSE, path |-> <<>>, dist |-> INF]
    ELSE LET wk == WalkParents(g, st.parent, t, <<>>, 0)
         IN  IF ~wk[1]
             THEN [returns |-> FALSE, ret |-> FALSE, path |-> <<>>,
                   dist |-> INF]
             ELSE [returns |-> TRUE, ret |-> TRUE, path |-> Reverse(wk[2]),
                   dist |-> st.dist[t + 1]]

\* Graph::shortestPath: whether the call returns, its return value, pathOut
\* and distOut
shortestPath(g, srcName0, destName0) ==
    LET srcName  == getActualLocationName(g, srcName0)
        destName == getActualLocationName(g, destName0)
    IN  IF ~hasLocation(g, srcName) \/ ~hasLocation(g, destName)
        THEN [returns |-> TRUE, ret |-> FALSE, path |-> <<>>, dist |-> INF]
        ELSE LET s  == g.nameToNode[srcName]
                 t  == g.nameToNode[destName]
                 st == DijkstraLoop(g, DijkstraInit(g, s))
             IN  afterLoop(g, st, t)

\* unordered_map::operator[] (lines 276-277, 327, 360): a key that is absent
\* is inserted with the value 0
IndexOrInsert(m, k) ==
    IF k \in DOMAIN m THEN m
    ELSE [x \in DOMAIN m \cup {k} |-> IF x = k THEN 0 ELSE m[x]]

shortestPathMembersNoCheck(g, srcName0, destName0) ==
    LET srcName  == getActualLocationName(g, srcName0)
        destName == getActualLocationName(g, destName0)
    IN  IndexOrInsert(IndexOrInsert(g.nameToNode, srcName), destName)

\* nameToNode after Graph::shortestPath: the early return of line 266 leaves
\* it alone, lines 276-277 index it with operator[]
shortestPathMembers(g, srcName0, destName0) ==
    LET srcName  == getActualLocationName(g, srcName0)
        destName == getActualLocationName(g, destName0)
    IN  IF ~hasLocation(g, srcName) \/ ~hasLocation(g, destName)
        THEN g.nameToNode
        ELSE IndexOrInsert(IndexOrInsert(g.nameToNode, srcName), destName)

\* the visited vector of BFS, DFS and isConnected (lines 325, 358, 372)
NoneVisited(g) == [i \in 1..Len(g.nodeToName) |-> FALSE]

RECURSIVE BFSEdges(_, _)
\* the for loop of Graph::BFS (lines 341-347) over the entries of adj[u] that
\* remain: an unvisited neighbour is marked and queued
BFSEdges(edges, st) ==
    IF edges = <<>> THEN st
    ELSE LET v == edges[1][1]
         IN  IF ~st.visited[v + 1]
             THEN BFSEdges(Tail(edges),
                           [st EXCEPT !.visited[v + 1] = TRUE,
                                      !.q = Append(@, v)])
             ELSE BFSEdges(Tail(edges), st)

RECURSIVE BFSLoopLifo(_, _)
BFSLoopLifo(g, st) ==
    IF st.q = <<>> THEN st
    ELSE LET u == st.q[Len(st.q)]
         IN  BFSLoopLifo(g, BFSEdges(g.adj[u + 1],
                 [st EXCEPT !.q = SubSeq(@, 1, Len(@) - 1),
                            !.result = Append(@, g.nodeToName[u + 1])]))

RECURSIVE BFSLoop(_, _)
\* the while loop of Graph::BFS (lines 336-348): the front of the queue is
\* popped and appended to the result, then its entries are scanned
BFSLoop(g, st) ==
    IF st.q = <<>> THEN st
    ELSE LET u == Head(st.q)
         IN  BFSLoop(g, BFSEdges(g.adj[u + 1],
                 [st EXCEPT !.q = Tail(@),
                            !.result = Append(@, g.nodeToName[u + 1])]))

BFSStartUnmarked(g, startName0) ==
    IF ~hasLocation(g, startName0) THEN <<>>
    ELSE LET startName == getActualLocationName(g, startName0)
             start     == g.nameToNode[startName]
         IN  BFSLoop(g, [visited |-> NoneVisited(g),
                         q       |-> <<start>>,
                         result  |-> <<>>]).result

\* Graph::BFS (lines 320-351)
BFS(g, startName0) ==
    IF ~hasLocation(g, startName0) THEN <<>>
    ELSE LET startName == getActualLocationName(g, startName0)
             start     == g.nameToNode[startName]
         IN  BFSLoop(g, [visited |-> [NoneVisited(g) EXCEPT ![start + 1] = TRUE],
                         q       |-> <<start>>,
                         result  |-> <<>>]).result

RECURSIVE DFSHelper(_, _, _)
RECURSIVE DFSEdgesFirstOnly(_, _, _)
RECURSIVE DFSEdges(_, _, _)

DFSEdgesFirstOnly(g, edges, st) ==
    IF edges = <<>> THEN st
    ELSE LET v == edges[1][1]
         IN  IF ~st.visited[v + 1]
             THEN DFSHelper(g, v, st)
             ELSE DFSEdgesFirstOnly(g, Tail(edges), st)

\* the for loop of Graph::DFSHelper (lines 189-194) over the entries of
\* adj[u] that remain: the recursion descends into each unvisited neighbour
DFSEdges(g, edges, st) ==
    IF edges = <<>> THEN st
    ELSE LET v == edges[1][1]
         IN  IF ~st.visited[v + 1]
             THEN DFSEdges(g, Tail(edges), DFSHelper(g, v, st))
             ELSE DFSEdges(g, Tail(edges), st)

\* Graph::DFSHelper (lines 185-195)
DFSHelper(g, u, st) ==
    DFSEdges(g, g.adj[u + 1],
             [st EXCEPT !.visited[u + 1] = TRUE,
                        !.result = Append(@, g.nodeToName[u + 1])])

\* Graph::DFS (lines 353-367)
DFS(g, startName0) ==
    IF ~hasLocation(g, startName0) THEN <<>>
    ELSE LET startName == getActualLocationName(g, startName0)
             start     == g.nameToNode[startName]
         IN  DFSHelper(g, start, [visited |-> NoneVisited(g),
                                  result  |-> <<>>]).result

traversalMembersNoCheck(g, startName0) ==
    IndexOrInsert(g.nameToNode, getActualLocationName(g, startName0))

\* nameToNode after Graph::BFS or Graph::DFS: the early return of lines 322
\* and 355 leaves it alone, lines 327 and 360 index it with operator[]
traversalMembers(g, startName0) ==
    IF ~hasLocation(g, startName0) THEN g.nameToNode
    ELSE IndexOrInsert(g.nameToNode, getActualLocationName(g, startName0))

RECURSIVE isConnectedEdges(_, _)
\* the for loop of Graph::isConnected (lines 382-388)
isConnectedEdges(edges, st) ==
    IF edges = <<>> THEN st
    ELSE LET v == edges[1][1]
         IN  IF ~st.visited[v + 1]
             THEN isConnectedEdges(Tail(edges),
                                   [st EXCEPT !.visited[v + 1] = TRUE,
                                              !.q = Append(@, v)])
             ELSE isConnectedEdges(Tail(edges), st)

RECURSIVE isConnectedLoop(_, _)
\* the while loop of Graph::isConnected (lines 378-389)
isConnectedLoop(g, st) ==
    IF st.q = <<>> THEN st
    ELSE LET u == Head(st.q)
         IN  isConnectedLoop(g, isConnectedEdges(g.adj[u + 1],
                                                 [st EXCEPT !.q = Tail(@)]))

isConnectedSkipsLast(g) ==
    IF g.nodeToName = <<>> THEN TRUE
    ELSE LET st == isConnectedLoop(g,
                       [visited |-> [NoneVisited(g) EXCEPT ![1] = TRUE],
                        q       |-> <<0>>])
         IN  \A i \in 1..(Len(st.visited) - 1) : st.visited[i]

\* Graph::isConnected (lines 369-396)
isConnected(g) ==
    IF g.nodeToName = <<>> THEN TRUE
    ELSE LET st == isConnectedLoop(g,
                       [visited |-> [NoneVisited(g) EXCEPT ![1] = TRUE],
                        q       |-> <<0>>])
         IN  \A i \in 1..Len(st.visited) : st.visited[i]

\* the Graph object's members as one value
G == Graph(nameToNode, nodeToName, adj)

SetGraph(g) ==
    /\ nameToNode' = g.nameToNode
    /\ nodeToName' = g.nodeToName
    /\ adj' = g.adj

RECURSIVE SumLen(_)
SumLen(a) == IF a = <<>> THEN 0 ELSE Len(a[1]) + SumLen(Tail(a))

\* the number of adjacency entries (twice getEdgeCount, line 399-405)
AdjEntries(a) == SumLen(a)

\* Graph::addLocation
AddLocation(name) ==
    LET r == addLocation(G, name)
    IN  /\ SetGraph(r.g)
        /\ last' = [op |-> "addLocation", a |-> name, id |-> r.id]
        /\ UNCHANGED <<avlVars, restVars>>

\* Graph::addEdge
AddEdge(uName, vName, w) ==
    LET r == addEdge(G, uName, vName, w)
    IN  /\ SetGraph(r.g)
        /\ last' = [op |-> "addEdge", a |-> uName, b |-> vName, w |-> w,
                    ret |-> r.ret, u |-> r.u, v |-> r.v,
                    made |-> Len(r.g.nodeToName) - Len(nodeToName)]
        /\ UNCHANGED <<avlVars, restVars>>

\* Graph::shortestPath
ShortestPath(srcName, destName) ==
    LET r == shortestPath(G, srcName, destName)
    IN  /\ last' = [op |-> "shortestPath", a |-> srcName, b |-> destName,
                    returns |-> r.returns, ret |-> r.ret, path |-> r.path,
                    dist |-> r.dist]
        /\ nameToNode' = shortestPathMembers(G, srcName, destName)
        /\ UNCHANGED <<avlVars, nodeToName, adj, restVars>>

\* Graph::BFS
BFSCall(startName) ==
    /\ last' = [op |-> "BFS", a |-> startName, result |-> BFS(G, startName)]
    /\ nameToNode' = traversalMembers(G, startName)
    /\ UNCHANGED <<avlVars, nodeToName, adj, restVars>>

\* Graph::DFS
DFSCall(startName) ==
    /\ last' = [op |-> "DFS", a |-> startName, result |-> DFS(G, startName)]
    /\ nameToNode' = traversalMembers(G, startName)
    /\ UNCHANGED <<avlVars, nodeToName, adj, restVars>>

\* Graph::isConnected
IsConnected ==
    /\ last' = [op |-> "isConnected", ret |-> isConnected(G)]
    /\ UNCHANGED <<avlVars, graphVars, restVars>>

\* Graph::getNodeCount (line 398)
getNodeCount(g) == Len(g.nodeToName)

\* Graph::getEdgeCount (lines 399-405)
getEdgeCount(g) == AdjEntries(g.adj) \div 2

\* Graph::hasLocation
HasLocation(name) ==
    /\ last' = [op |-> "hasLocation", a |-> name, ret |-> hasLocation(G, name)]
    /\ UNCHANGED <<avlVars, graphVars, restVars>>

\* Graph::getActualLocationName
GetActualLocationName(name) ==
    /\ last' = [op |-> "getActualLocationName", a |-> name,
                ret |-> getActualLocationName(G, name)]
    /\ UNCHANGED <<avlVars, graphVars, restVars>>

\* Graph::getNodeCount
GetNodeCount ==
    /\ last' = [op |-> "getNodeCount", ret |-> getNodeCount(G)]
    /\ UNCHANGED <<avlVars, graphVars, restVars>>

\* Graph::getEdgeCount
GetEdgeCount ==
    /\ last' = [op |-> "getEdgeCount", ret |-> getEdgeCount(G)]
    /\ UNCHANGED <<avlVars, graphVars, restVars>>

(***************************************************************************)
(* Graph::shortestPath taken one iteration of its while loop at a time.    *)
(* run holds the locals of the call under way: the resolved ids s and t    *)
(* and st = [dist, parent, visited, pq].                                   *)
(***************************************************************************)
Idle == [active |-> FALSE]

\* lines 258-280: the call up to the while loop
ShortestPathBegin(srcName0, destName0) ==
    LET srcName  == getActualLocationName(G, srcName0)
        destName == getActualLocationName(G, destName0)
    IN  /\ ~run.active
        /\ IF ~hasLocation(G, srcName) \/ ~hasLocation(G, destName)
           THEN /\ run' = Idle
                /\ last' = [op |-> "shortestPath", a |-> srcName0,
                            b |-> destName0, returns |-> TRUE, ret |-> FALSE,
                            path |-> <<>>, dist |-> INF]
           ELSE LET s == nameToNode[srcName]
                    t == nameToNode[destName]
                IN  /\ run' = [active |-> TRUE, a |-> srcName0,
                               b |-> destName0, s |-> s, t |-> t,
                               st |-> DijkstraInit(G, s)]
                    /\ last' = [op |-> "begin", a |-> srcName0,
                                b |-> destName0]
        /\ nameToNode' = shortestPathMembers(G, srcName0, destName0)
        /\ UNCHANGED <<avlVars, nodeToName, adj, queueVars, hashVars,
                       trieVars, routeVars>>

\* lines 282-300: one iteration of the while loop
ShortestPathPop ==
    /\ run.active
    /\ run.st.pq # {}
    /\ LET cur == PQTop(run.st.pq)
       IN  /\ run' = [run EXCEPT !.st = DijkstraStep(G, @)]
           /\ last' = [op |-> "pop", u |-> cur[2], d |-> cur[1],
                       stale |-> run.st.visited[cur[2] + 1]]
    /\ UNCHANGED <<avlVars, graphVars, queueVars, hashVars, trieVars,
                   routeVars>>

\* lines 302-317: the loop has ended, the call returns (or walks parent[]
\* for ever)
ShortestPathEnd ==
    /\ run.active
    /\ run.st.pq = {}
    /\ LET r == afterLoop(G, run.st, run.t)
       IN  last' = [op |-> "shortestPath", a |-> run.a, b |-> run.b,
                    returns |-> r.returns, ret |-> r.ret, path |-> r.path,
                    dist |-> r.dist]
    /\ run' = Idle
    /\ UNCHANGED <<avlVars, graphVars, queueVars, hashVars, trieVars,
                   routeVars>>

(***************************************************************************)
(* The queue of the browser front end (dsa-visualization.js): the arrays   *)
(* queue and processedItems.  An item is the text of the input field, a    *)
(* sequence of character codes.                                            *)
(***************************************************************************)
\* the texts typed into the item field: "x", " y ", "", " ", "y"
ItemList == << <<120>>, <<32, 121, 32>>, <<>>, <<32>>, <<121>> >>

Items == {ItemList[i] : i \in 1..NumItems}

\* the white space String.prototype.trim removes: tab, line feed, vertical
\* tab, form feed, carriage return, space
isSpace(c) == c \in {9, 10, 11, 12, 13, 32}

RECURSIVE trimStart(_)
trimStart(s) ==
    IF s # <<>> /\ isSpace(s[1]) THEN trimStart(Tail(s)) ELSE s

RECURSIVE trimEnd(_)
trimEnd(s) ==
    IF s # <<>> /\ isSpace(s[Len(s)])
    THEN trimEnd(SubSeq(s, 1, Len(s) - 1)) ELSE s

\* String.prototype.trim
trim(s) == trimEnd(trimStart(s))

\* enqueue(): an item that is empty once trimmed is refused
Enqueue(text) ==
    LET item == trim(text)
    IN  /\ IF item = <<>>
           THEN UNCHANGED queue
           ELSE queue' = Append(queue, item)
        /\ last' = [op |-> "enqueue", text |-> text, ret |-> item # <<>>]
        /\ UNCHANGED <<avlVars, graphVars, dijkstraVars, processedItems,
                       hashVars, trieVars, routeVars>>

DequeuePop ==
    /\ IF Len(queue) = 0
       THEN UNCHANGED <<queue, processedItems>>
       ELSE /\ queue' = SubSeq(queue, 1, Len(queue) - 1)
            /\ processedItems' = Append(processedItems, queue[Len(queue)])
    /\ last' = [op |-> "dequeue", ret |-> Len(queue) # 0]
    /\ UNCHANGED <<avlVars, graphVars, dijkstraVars, hashVars, trieVars,
                   routeVars>>

\* dequeue(): queue.shift() takes the front item, which is pushed onto
\* processedItems
Dequeue ==
    /\ IF Len(queue) = 0
       THEN UNCHANGED <<queue, processedItems>>
       ELSE /\ queue' = Tail(queue)
            /\ processedItems' = Append(processedItems, Head(queue))
    /\ last' = [op |-> "dequeue", ret |-> Len(queue) # 0]
    /\ UNCHANGED <<avlVars, graphVars, dijkstraVars, hashVars, trieVars,
                   routeVars>>

RECURSIVE shiftAll(_, _)
\* the while loop of processAll(): shift the front item and push it, until
\* the queue is empty; the result is <<queue, processedItems>>
shiftAll(q, done) ==
    IF Len(q) > 0 THEN shiftAll(Tail(q), Append(done, Head(q)))
    ELSE <<q, done>>

\* processAll()
ProcessAll ==
    /\ IF Len(queue) = 0
       THEN UNCHANGED <<queue, processedItems>>
       ELSE LET r == shiftAll(queue, processedItems)
            IN  /\ queue' = r[1]
                /\ processedItems' = r[2]
    /\ last' = [op |-> "processAll", ret |-> Len(queue)]
    /\ UNCHANGED <<avlVars, graphVars, dijkstraVars, hashVars, trieVars,
                   routeVars>>

\* clearQueue(): nothing to clear, or the user answers the confirm dialog
ClearQueue(confirmed) ==
    /\ IF (Len(queue) = 0 /\ Len(processedItems) = 0) \/ ~confirmed
       THEN UNCHANGED <<queue, processedItems>>
       ELSE /\ queue' = <<>>
            /\ processedItems' = <<>>
    /\ last' = [op |-> "clearQueue", ret |-> confirmed]
    /\ UNCHANGED <<avlVars, graphVars, dijkstraVars, hashVars, trieVars,
                   routeVars>>

(***************************************************************************)
(* CustomHashTable.  table is the vector of buckets (bucket i at index     *)
(* i + 1); a bucket is its chain from the head, a sequence of              *)
(* <<key, value>> nodes.                                                   *)
(***************************************************************************)
\* the keys the table is called with: "a", "c", "e", "b", "i".  With two
\* buckets "a", "c", "e" share one; with four "a" and "e"; with eight "a"
\* and "i".
HashKeyList == << <<97>>, <<99>>, <<101>>, <<98>>, <<105>> >>

HashKeys == {HashKeyList[i] : i \in 1..NumHashKeys}

HashValues == 1..NumHashValues

RECURSIVE djb2(_, _)
\* the loop of hashFunction (lines 859-861): hash = hash * 33 + c.  The keys
\* are short enough for the unsigned long never to wrap.
djb2(hash, key) ==
    IF key = <<>> THEN hash
    ELSE djb2(((hash * 32) + hash) + key[1], Tail(key))

\* CustomHashTable::hashFunction with the capacity cap
hashFunction(key, cap) == djb2(5381, key) % cap

RECURSIVE rehashChain(_, _, _)
\* the while loop of rehash (lines 872-878) over the nodes of one old chain:
\* each node becomes the head of its new bucket
rehashChain(newTable, chain, cap) ==
    IF chain = <<>> THEN newTable
    ELSE LET newIndex == hashFunction(chain[1][1], cap)
         IN  rehashChain(
                 [newTable EXCEPT ![newIndex + 1] = <<chain[1]>> \o @],
                 Tail(chain), cap)

RECURSIVE rehashBuckets(_, _, _, _)
\* the for loop of rehash (lines 870-879) from old bucket i on
rehashBuckets(newTable, t, i, cap) ==
    IF i >= Len(t) THEN newTable
    ELSE rehashBuckets(rehashChain(newTable, t[i + 1], cap), t, i + 1, cap)

rehashOldIndex(t, cap) ==
    LET newTable == [i \in 1..(cap * 2) |-> <<>>]
    IN  [table    |-> rehashBuckets(newTable, t, 0, cap),
         capacity |-> cap * 2]

\* CustomHashTable::rehash: the new table and capacity
rehash(t, cap) ==
    LET newTable == [i \in 1..(cap * 2) |-> <<>>]
    IN  [table    |-> rehashBuckets(newTable, t, 0, cap * 2),
         capacity |-> cap * 2]

\* index in chain of the first node whose key is key, 0 if none (the while
\* loops of search, lines 924-929, and remove, lines 939-952)
FirstNode(chain, key) ==
    IF \E i \in 1..Len(chain) : chain[i][1] = key
    THEN CHOOSE i \in 1..Len(chain) :
             /\ chain[i][1] = key
             /\ \A j \in 1..(i - 1) : chain[j][1] # key
    ELSE 0

\* CustomHashTable::search: <<found, value>> (nullptr is <<FALSE, 0>>)
htSearch(t, cap, key) ==
    LET chain == t[hashFunction(key, cap) + 1]
        i     == FirstNode(chain, key)
    IN  IF i # 0 THEN <<TRUE, chain[i][2]>> ELSE <<FALSE, 0>>

htInsertNoSearch(t, cap, sz, key, value) ==
    LET r     == IF 4 * sz >= 3 * cap THEN rehash(t, cap)
                 ELSE [table |-> t, capacity |-> cap]
        index == hashFunction(key, r.capacity)
    IN  [table    |-> [r.table EXCEPT ![index + 1] = <<<<key, value>>>> \o @],
         capacity |-> r.capacity,
         size     |-> sz + 1,
         ret      |-> TRUE]

\* CustomHashTable::insert: the members afterwards and the return value.
\* (double)size / capacity >= 0.75 is 4 * size >= 3 * capacity.
htInsert(t, cap, sz, key, value) ==
    LET index0 == hashFunction(key, cap)
        i      == FirstNode(t[index0 + 1], key)
    IN  IF i # 0
        THEN [table    |-> [t EXCEPT ![index0 + 1][i] = <<key, value>>],
              capacity |-> cap,
              size     |-> sz,
              ret      |-> FALSE]
        ELSE LET r     == IF 4 * sz >= 3 * cap THEN rehash(t, cap)
                          ELSE [table |-> t, capacity |-> cap]
                 index == hashFunction(key, r.capacity)
             IN  [table    |-> [r.table EXCEPT
                                   ![index + 1] = <<<<key, value>>>> \o @],
                  capacity |-> r.capacity,
                  size     |-> sz + 1,
                  ret      |-> TRUE]

\* CustomHashTable::remove: the members afterwards and the return value
htRemove(t, cap, sz, key) ==
    LET index == hashFunction(key, cap)
        chain == t[index + 1]
        i     == FirstNode(chain, key)
    IN  IF i # 0
        THEN [table |-> [t EXCEPT ![index + 1] =
                             SubSeq(chain, 1, i - 1)
                             \o SubSeq(chain, i + 1, Len(chain))],
              size  |-> sz - 1,
              ret   |-> TRUE]
        ELSE [table |-> t, size |-> sz, ret |-> FALSE]

\* CustomHashTable::insert
HashInsert(key, value) ==
    LET r == htInsert(table, capacity, size, key, value)
    IN  /\ table' = r.table
        /\ capacity' = r.capacity
        /\ size' = r.size
        /\ last' = [op |-> "htInsert", key |-> key, value |-> value,
                    ret |-> r.ret]
        /\ UNCHANGED <<avlVars, graphVars, dijkstraVars, queueVars, trieVars,
                       routeVars>>

\* CustomHashTable::search
HashSearch(key) ==
    /\ last' = [op |-> "htSearch", key |-> key,
                ret |-> htSearch(table, capacity, key)]
    /\ UNCHANGED <<avlVars, graphVars, dijkstraVars, queueVars, hashVars,
                   trieVars, routeVars>>

\* CustomHashTable::remove
HashRemove(key) ==
    LET r == htRemove(table, capacity, size, key)
    IN  /\ table' = r.table
        /\ size' = r.size
        /\ last' = [op |-> "htRemove", key |-> key, ret |-> r.ret]
        /\ UNCHANGED <<avlVars, graphVars, dijkstraVars, queueVars, capacity,
                       trieVars, routeVars>>

(***************************************************************************)
(* Trie.  A node is [isEnd, children], children a function from the child  *)
(* indices that are not nullptr (a subset of 0..25) to nodes; trie is the   *)
(* root node.                                                              *)
(***************************************************************************)
\* the words inserted: "ab", "A", "a1b", "b", "1", "Ba", "abc"
WordList ==
    << <<97, 98>>, <<65>>, <<97, 49, 98>>, <<98>>, <<49>>, <<66, 97>>,
       <<97, 98, 99>> >>

Words == {WordList[i] : i \in 1..NumWords}

\* the prefixes asked for: "a", "A1", "", "b", "c", "ab", "1B"
PrefixList ==
    << <<97>>, <<65, 49>>, <<>>, <<98>>, <<99>>, <<97, 98>>, <<49, 66>> >>

Prefixes == {PrefixList[i] : i \in 1..NumPrefixes}

\* TrieNode::TrieNode
TrieNode == [isEnd |-> FALSE, children |-> [i \in {} |-> 0]]

\* isalpha in the "C" locale
isalpha(c) == c \in 65..90 \/ c \in 97..122

\* Trie::idx
idx(c) == IF isalpha(c) THEN tolower(c) - 97 ELSE -1

RECURSIVE trieInsert(_, _)
\* Trie::insert from node cur on, word = the characters still to read; the
\* result is cur's subtree afterwards
trieInsert(cur, word) ==
    IF word = <<>> THEN [cur EXCEPT !.isEnd = TRUE]
    ELSE LET i == idx(word[1])
         IN  IF i = -1 THEN trieInsert(cur, Tail(word))
             ELSE LET child == IF i \in DOMAIN cur.children
                               THEN cur.children[i] ELSE TrieNode
                      next  == trieInsert(child, Tail(word))
                  IN  [cur EXCEPT !.children =
                          [j \in DOMAIN cur.children \cup {i} |->
                              IF j = i THEN next ELSE cur.children[j]]]

RECURSIVE collectAll(_, _)
RECURSIVE collectChildren(_, _, _)
\* the for loop of collectAll (lines 110-114) from child index i on
collectChildren(node, prefix, i) ==
    IF i >= 26 THEN <<>>
    ELSE (IF i \in DOMAIN node.children
          THEN collectAll(node.children[i], Append(prefix, 97 + i))
          ELSE <<>>)
         \o collectChildren(node, prefix, i + 1)

\* Trie::collectAll: what it appends to out
collectAll(node, prefix) ==
    (IF node.isEnd THEN <<prefix>> ELSE <<>>)
    \o collectChildren(node, prefix, 0)

RECURSIVE suggestStopsAtNonLetter(_, _, _)
suggestStopsAtNonLetter(cur, prefix, p) ==
    IF prefix = <<>> THEN collectAll(cur, p)
    ELSE LET i == idx(prefix[1])
         IN  IF i = -1 \/ i \notin DOMAIN cur.children THEN <<>>
             ELSE suggestStopsAtNonLetter(cur.children[i], Tail(prefix),
                                          Append(p, tolower(prefix[1])))

RECURSIVE suggest(_, _, _)
\* Trie::suggest from node cur on, prefix = the characters still to read,
\* p = the normalized prefix read so far
suggest(cur, prefix, p) ==
    IF prefix = <<>> THEN collectAll(cur, p)
    ELSE LET i == idx(prefix[1])
         IN  IF i = -1 THEN suggest(cur, Tail(prefix), p)
             ELSE IF i \notin DOMAIN cur.children THEN <<>>
             ELSE suggest(cur.children[i], Tail(prefix),
                          Append(p, tolower(prefix[1])))

\* Trie::insert
TrieInsert(word) ==
    /\ trie' = trieInsert(trie, word)
    /\ last' = [op |-> "trieInsert", word |-> word]
    /\ UNCHANGED <<avlVars, graphVars, dijkstraVars, queueVars, hashVars,
                   routeVars>>

\* Trie::suggest
Suggest(prefix) ==
    /\ last' = [op |-> "suggest", prefix |-> prefix,
                out |-> suggest(trie, prefix, <<>>)]
    /\ UNCHANGED <<avlVars, graphVars, dijkstraVars, queueVars, hashVars,
                   trieVars, routeVars>>

(***************************************************************************)
(* BusRoute.  head is the linked list from its head, as the sequence of    *)
(* the stops' names (nullptr is the empty sequence).                       *)
(***************************************************************************)
\* the stop names used: "1", "2", "3", "4"
StopList == << <<49>>, <<50>>, <<51>>, <<52>> >>

Stops == {StopList[i] : i \in 1..NumStops}

\* BusRoute::addStop: the walk to the last node and the link behind it
addStop(list, n) == Append(list, n)

\* index of the first stop of list named n, 0 if none (lines 453-466)
FirstStop(list, n) ==
    IF \E i \in 1..Len(list) : list[i] = n
    THEN CHOOSE i \in 1..Len(list) :
             list[i] = n /\ \A j \in 1..(i - 1) : list[j] # n
    ELSE 0

\* BusRoute::deleteStop: the list afterwards and the return value
deleteStop(list, n) ==
    LET i == FirstStop(list, n)
    IN  IF i = 0 THEN [head |-> list, ret |-> FALSE]
        ELSE [head |-> SubSeq(list, 1, i - 1) \o SubSeq(list, i + 1, Len(list)),
              ret  |-> TRUE]

RECURSIVE reverseLoopDropsLast(_, _)
reverseLoopDropsLast(prev, cur) ==
    IF Len(cur) <= 1 THEN prev
    ELSE reverseLoopDropsLast(<<Head(cur)>> \o prev, Tail(cur))

RECURSIVE reverseLoop(_, _)
\* the while loop of reverseRoute (lines 478-483): cur's first node is
\* linked in front of prev
reverseLoop(prev, cur) ==
    IF cur = <<>> THEN prev
    ELSE reverseLoop(<<Head(cur)>> \o prev, Tail(cur))

\* BusRoute::reverseRoute
reverseRoute(list) == reverseLoop(<<>>, list)

\* BusRoute::addStop
AddStop(n) ==
    /\ head' = addStop(head, n)
    /\ last' = [op |-> "addStop", n |-> n]
    /\ UNCHANGED <<avlVars, graphVars, dijkstraVars, queueVars, hashVars,
                   trieVars>>

\* BusRoute::deleteStop
DeleteStop(n) ==
    LET r == deleteStop(head, n)
    IN  /\ head' = r.head
        /\ last' = [op |-> "deleteStop", n |-> n, ret |-> r.ret]
        /\ UNCHANGED <<avlVars, graphVars, dijkstraVars, queueVars, hashVars,
                       trieVars>>

\* BusRoute::reverseRoute
ReverseRoute ==
    /\ head' = reverseRoute(head)
    /\ last' = [op |-> "reverseRoute"]
    /\ UNCHANGED <<avlVars, graphVars, dijkstraVars, queueVars, hashVars,
                   trieVars>>

Init ==
    /\ root = Nil
    /\ nameToNode = EmptyMap
    /\ nodeToName = <<>>
    /\ adj = <<>>
    /\ last = [op |-> "init"]
    /\ run = Idle
    /\ queue = <<>>
    /\ processedItems = <<>>
    /\ table = [i \in 1..InitialCapacity |-> <<>>]
    /\ capacity = InitialCapacity
    /\ size = 0
    /\ trie = TrieNode
    /\ head = <<>>

NextAVL ==
    \/ \E key \in Keys, value \in Values : Insert(key, value)
    \/ \E key \in Keys : Remove(key)

SpecAVL == Init /\ [][NextAVL]_vars

\* demonstrateGraph (lines 1052-1082) builds the graph and then queries it.
\* A query leaves the members unchanged, so a behaviour ends with its query.
Building == last.op \in {"init", "addLocation", "addEdge"}

\* the graph stays within nodes locations and entries adjacency entries
Fits(nodes, entries) ==
    /\ Len(nodeToName) <= nodes
    /\ AdjEntries(adj) <= entries

NextGraph ==
    \/ \E name \in Names :
           Building /\ AddLocation(name) /\ Fits(MaxNodes, MaxAdj)'
    \/ \E uName \in Names, vName \in Names, w \in Weights :
           Building /\ AddEdge(uName, vName, w) /\ Fits(MaxNodes, MaxAdj)'
    \/ \E srcName \in Names, destName \in Names :
           Building /\ ShortestPath(srcName, destName)

SpecGraph == Init /\ [][NextGraph]_vars

\* Graphs of up to WalkNodes locations joined by unit-weight edges between
\* two different locations, then one traversal or one connectivity query.
NextTraverse ==
    \/ \E name \in WalkNames :
           Building /\ AddLocation(name) /\ Fits(WalkNodes, WalkAdj)'
    \/ \E uName \in WalkNames, vName \in WalkNames, w \in {1} :
           /\ Building
           /\ uName # vName
           /\ AddEdge(uName, vName, w)
           /\ Fits(WalkNodes, WalkAdj)'
    \/ \E startName \in StartNames : Building /\ BFSCall(startName)
    \/ \E startName \in StartNames : Building /\ DFSCall(startName)
    \/ Building /\ IsConnected

\* the names and weights shortestPath is stepped through: "a", "b", "c"
\* and the weights -1, 1, 3 (a detour of weight 1 + 1 beats a direct 3)
DijkstraNames == {<<97>>, <<98>>, <<99>>}

DijkstraWeights == {-1, 1, 3}

\* Graphs built by addEdge alone between two different names, then one
\* shortestPath call taken step by step.
NextDijkstra ==
    \/ \E uName \in DijkstraNames, vName \in DijkstraNames,
          w \in DijkstraWeights :
           /\ Building
           /\ uName # vName
           /\ AddEdge(uName, vName, w)
           /\ Fits(DijkstraNodes, DijkstraAdj)'
    \/ \E srcName \in DijkstraNames, destName \in DijkstraNames :
           Building /\ ShortestPathBegin(srcName, destName)
    \/ ShortestPathPop
    \/ ShortestPathEnd

SpecDijkstra == Init /\ [][NextDijkstra]_vars

NextHash ==
    \/ \E key \in HashKeys, value \in HashValues : HashInsert(key, value)
    \/ \E key \in HashKeys : HashSearch(key)
    \/ \E key \in HashKeys : HashRemove(key)

SpecHash == Init /\ [][NextHash]_vars

NextTrie ==
    \/ \E word \in Words : TrieInsert(word)
    \/ \E prefix \in Prefixes : Suggest(prefix)

SpecTrie == Init /\ [][NextTrie]_vars

NextRoute ==
    \/ \E n \in Stops : AddStop(n) /\ Len(head') <= MaxStops
    \/ \E n \in Stops : DeleteStop(n)
    \/ ReverseRoute

SpecRoute == Init /\ [][NextRoute]_vars

\* the buttons of the queue panel, pressed in any order
NextQueue ==
    \/ \E text \in Items :
           /\ Enqueue(text)
           /\ Len(queue') + Len(processedItems') <= MaxQueued
    \/ Dequeue
    \/ ProcessAll
    \/ \E confirmed \in BOOLEAN : ClearQueue(confirmed)

SpecQueue == Init /\ [][NextQueue]_vars

SpecTraverse == Init /\ [][NextTraverse]_vars

\* The graphs of SpecGraph (self-loops, either case of a name, any weight),
\* then one traversal or one connectivity query.
NextTraverseLoops ==
    \/ \E name \in Names :
           Building /\ AddLocation(name) /\ Fits(MaxNodes, MaxAdj)'
    \/ \E uName \in Names, vName \in Names, w \in Weights :
           Building /\ AddEdge(uName, vName, w) /\ Fits(MaxNodes, MaxAdj)'
    \/ \E startName \in Names : Building /\ BFSCall(startName)
    \/ \E startName \in Names : Building /\ DFSCall(startName)
    \/ Building /\ IsConnected

SpecTraverseLoops == Init /\ [][NextTraverseLoops]_vars

\* Graphs with positive weights, self-loops and names in either case, then
\* any one of the eight queries.
NextQueries ==
    \/ \E name \in Names :
           Building /\ AddLocation(name) /\ Fits(MaxNodes, MaxAdj)'
    \/ \E uName \in Names, vName \in Names, w \in 1..MaxWeight :
           Building /\ AddEdge(uName, vName, w) /\ Fits(MaxNodes, MaxAdj)'
    \/ \E srcName \in Names, destName \in Names :
           Building /\ ShortestPath(srcName, destName)
    \/ \E startName \in Names : Building /\ BFSCall(startName)
    \/ \E startName \in Names : Building /\ DFSCall(startName)
    \/ Building /\ IsConnected
    \/ \E name \in Names : Building /\ HasLocation(name)
    \/ \E name \in Names : Building /\ GetActualLocationName(name)
    \/ Building /\ GetNodeCount
    \/ Building /\ GetEdgeCount

SpecQueries == Init /\ [][NextQueries]_vars

(***************************************************************************)
(* Properties of the AVL tree, checked under SpecAVL.                      *)
(***************************************************************************)
RECURSIVE TrueHeight(_)
\* the height of a subtree counted from its shape, not read from the nodes
TrueHeight(node) ==
    IF node = Nil THEN 0
    ELSE 1 + max(TrueHeight(Left(node)), TrueHeight(Right(node)))

RECURSIVE Balanced(_)
Balanced(node) ==
    \/ node = Nil
    \/ /\ TrueHeight(Left(node)) - TrueHeight(Right(node)) \in {-1, 0, 1}
       /\ Balanced(Left(node))
       /\ Balanced(Right(node))

RECURSIVE Size(_)
Size(node) == IF node = Nil THEN 0 ELSE 1 + Size(Left(node)) + Size(Right(node))

\* C1: after any sequence of insert and remove calls every node of the tree
\* has subtrees whose true heights differ by at most one.
C1_BalanceInvariant == Balanced(root)

\* a remove of a present key has left a four-node tree of height three
C1_Witness ==
    /\ last.op = "remove"
    /\ last.ret
    /\ Size(root) = 4
    /\ TrueHeight(root) = 3

\* C2: after any sequence of insert and remove calls inorderTraversal()
\* yields the keys in strictly ascending order, no key repeated.
C2_InorderAscending ==
    LET io == inorderTraversal(root)
    IN  \A i \in 1..(Len(io) - 1) : StrLess(io[i][1], io[i + 1][1])

\* an insert has produced a tree that holds every key offered
C2_Witness ==
    /\ last.op = "insert"
    /\ Len(inorderTraversal(root)) = NumKeys
    /\ Key(root) # last.key

\* C3: immediately after insert(k, v), search(k) finds k with value v;
\* immediately after remove(k), search(k) reports not-found.
C3_RoundTrip ==
    /\ last.op = "insert" => search(root, last.key) = <<TRUE, last.value>>
    /\ last.op = "remove" => ~search(root, last.key)[1]

\* a remove of a present key has left a tree of at least three keys in
\* which the key is no longer found
C3_Witness ==
    /\ last.op = "remove"
    /\ last.ret
    /\ Size(root) >= 3
    /\ ~search(root, last.key)[1]

\* C14: remove(key) for an absent key returns false and leaves the tree
\* (shape, keys, values, heights) exactly as it was.
C14_RemoveAbsentNoOp ==
    [][(last'.op = "remove" /\ ~search(root, last'.key)[1])
       => /\ ~last'.ret
          /\ root' = root]_vars

\* a remove of an absent key has returned false on a tree of three or more
\* keys
C14_Witness ==
    /\ last.op = "remove"
    /\ ~last.ret
    /\ Size(root) >= 3
    /\ ~search(root, last.key)[1]

\* seq without the pairs whose key is k
WithoutKey(seq, k) == SelectSeq(seq, LAMBDA p : p[1] # k)

\* C15: remove(key) for a present key returns true and the in-order
\* traversal afterwards is the traversal before without that key's pair.
C15_RemoveExactlyOne ==
    [][(last'.op = "remove" /\ search(root, last'.key)[1])
       => /\ last'.ret
          /\ inorderTraversal(root')
                 = WithoutKey(inorderTraversal(root), last'.key)
          /\ Len(inorderTraversal(root')) = Len(inorderTraversal(root)) - 1]_vars

\* a remove has deleted a node with two children that was not the root's
\* only occupant: at least three keys remain
C15_Witness ==
    /\ last.op = "remove"
    /\ last.ret
    /\ last.two
    /\ Size(root) >= 3

RECURSIVE WithValue(_, _, _)
\* the tree with the value of key's node replaced and nothing else changed
WithValue(node, key, value) ==
    IF node = Nil THEN Nil
    ELSE <<Key(node), IF Key(node) = key THEN value ELSE Value(node),
           WithValue(Left(node), key, value),
           WithValue(Right(node), key, value), node[5]>>

\* C16: insert(key, value) for a key already present overwrites that key's
\* value and changes nothing else: links, keys, other values and heights
\* stay as they were.
C16_InsertOverwrites ==
    [][(last'.op = "insert" /\ search(root, last'.key)[1])
       => root' = WithValue(root, last'.key, last'.value)]_vars

\* an insert has overwritten the value of a key held below the root with a
\* different value
C16_Witness ==
    /\ last.op = "insert"
    /\ last.present
    /\ Size(root) >= 3
    /\ Key(root) # last.key
    /\ search(root, last.key) = <<TRUE, last.value>>

(***************************************************************************)
(* Properties of the graph, checked under SpecGraph.                       *)
(***************************************************************************)
Ids == 0..(Len(nodeToName) - 1)

\* the entries of a's list of id u, as a set
Entries(a, u) == {a[u + 1][i] : i \in 1..Len(a[u + 1])}

\* the number of entries of a's list of id u whose neighbour is v
CountTo(a, u, v) == Cardinality({i \in 1..Len(a[u + 1]) : a[u + 1][i][1] = v})

\* the location a name resolves to, case-insensitively (defined when it does)
Resolve(name) == nameToNode[getActualLocationName(G, name)]

\* the sequences of distinct ids that start at s, end at t and follow edges
SimplePaths(s, t) ==
    {p \in UNION {[1..k -> Ids] : k \in 1..Len(nodeToName)} :
        /\ p[1] = s
        /\ p[Len(p)] = t
        /\ \A i, j \in 1..Len(p) : i # j => p[i] # p[j]
        /\ \A i \in 1..(Len(p) - 1) : CountTo(adj, p[i], p[i + 1]) > 0}

\* the least weight of an entry from u to v
HopWeight(u, v) ==
    LET ws == {e[2] : e \in {x \in Entries(adj, u) : x[1] = v}}
    IN  CHOOSE w \in ws : \A x \in ws : w <= x

RECURSIVE PathWeight(_)
PathWeight(p) ==
    IF Len(p) <= 1 THEN 0
    ELSE HopWeight(p[1], p[2]) + PathWeight(Tail(p))

Reachable(s, t) == SimplePaths(s, t) # {}

MinDistance(s, t) ==
    LET ds == {PathWeight(p) : p \in SimplePaths(s, t)}
    IN  CHOOSE d \in ds : \A x \in ds : d <= x

\* C4: for existing locations source and dest with dest reachable from
\* source, shortestPath succeeds and its distance is the least total weight
\* of a path from source to dest.
C4_DijkstraCorrect ==
    (/\ last.op = "shortestPath"
     /\ hasLocation(G, last.a)
     /\ hasLocation(G, last.b)
     /\ Reachable(Resolve(last.a), Resolve(last.b)))
    => /\ last.returns
       /\ last.ret
       /\ last.dist = MinDistance(Resolve(last.a), Resolve(last.b))

\* C5: the adjacency is symmetric: <<v, w>> is in u's list exactly when
\* <<u, w>> is in v's list.
C5_Symmetric ==
    \A u \in Ids : \A e \in Entries(adj, u) :
        /\ e[1] \in Ids
        /\ <<u, e[2]>> \in Entries(adj, e[1])

\* an addEdge has updated the weight of an existing edge between two
\* locations one of which has a second neighbour
C5_Witness ==
    /\ last.op = "addEdge"
    /\ last.ret = "updated"
    /\ last.u # last.v
    /\ Len(adj[last.u + 1]) >= 2

AtMostOneEdge ==
    \A u, v \in Ids : u # v => CountTo(adj, u, v) <= 1

\* C6: re-adding an edge between two locations that already share one
\* updates the weight in both directions and adds no adjacency entry, so
\* every pair of locations has at most one edge at all times.
C6_IdempotentEdgeUpdate ==
    [][/\ (/\ last'.op = "addEdge"
           /\ last'.u # last'.v
           /\ last'.u + 1 <= Len(adj)
           /\ last'.v + 1 <= Len(adj)
           /\ CountTo(adj, last'.u, last'.v) > 0)
          => /\ \A u \in Ids : Len(adj'[u + 1]) = Len(adj[u + 1])
             /\ nodeToName' = nodeToName
             /\ Entries(adj', last'.u) \cap ({last'.v} \X Int)
                    = {<<last'.v, last'.w>>}
             /\ Entries(adj', last'.v) \cap ({last'.u} \X Int)
                    = {<<last'.u, last'.w>>}
       /\ AtMostOneEdge']_vars

\* an addEdge has changed the weight of the edge between two locations,
\* given with the second-created location first
C6_Witness ==
    /\ last.op = "addEdge"
    /\ last.ret = "updated"
    /\ last.u > last.v
    /\ Entries(adj, last.u) = {<<last.v, last.w>>}

\* C7: addLocation of a name that matches an existing location
\* case-insensitively returns that location's id and creates nothing.
C7_AddLocationIdempotent ==
    [][(last'.op = "addLocation" /\ Matches(G, last'.a) # {})
       => /\ UNCHANGED graphVars
          /\ \A k \in Matches(G, last'.a) : last'.id = nameToNode[k]]_vars

\* addLocation was called with a name that is no key of the name table,
\* and returned the id of the location that differs from it in letter case
C7_Witness ==
    /\ last.op = "addLocation"
    /\ last.a \notin DOMAIN nameToNode
    /\ \E k \in DOMAIN nameToNode : toLower(k) = toLower(last.a)
                                     /\ nameToNode[k] = last.id

AllWeightsPositive ==
    \A u \in Ids : \A e \in Entries(adj, u) : e[2] > 0

\* C8: addEdge with weight <= 0 is rejected and mutates nothing, so every
\* stored edge weight is a positive integer.
C8_NonPositiveWeightRejected ==
    [][/\ (last'.op = "addEdge" /\ last'.w <= 0) => UNCHANGED graphVars
       /\ AllWeightsPositive']_vars

NoSelfLoops ==
    \A u \in Ids : CountTo(adj, u, u) = 0

\* C9: addEdge whose two names resolve to the same location is rejected, so
\* no location appears in its own adjacency list.
C9_SelfLoopRejected ==
    [][/\ (last'.op = "addEdge" /\ last'.u = last'.v) => UNCHANGED graphVars
       /\ NoSelfLoops']_vars

\* C10: shortestPath between existing locations with dest not reachable
\* from source returns false with an empty path and the distance INF.
C10_UnreachableNotFound ==
    (/\ last.op = "shortestPath"
     /\ hasLocation(G, last.a)
     /\ hasLocation(G, last.b)
     /\ ~Reachable(Resolve(last.a), Resolve(last.b)))
    => /\ last.returns
       /\ ~last.ret
       /\ last.path = <<>>
       /\ last.dist = INF

\* shortestPath was asked for a location without edges, from a location
\* that has a neighbour
C10_Witness ==
    /\ last.op = "shortestPath"
    /\ hasLocation(G, last.a)
    /\ hasLocation(G, last.b)
    /\ adj[Resolve(last.b) + 1] = <<>>
    /\ adj[Resolve(last.a) + 1] # <<>>
    /\ ~last.ret

\* C11: shortestPath with a source or dest that resolves to no existing
\* location returns false with an empty path and the distance INF, and
\* leaves the name table, the id table and the adjacency as they were.
C11_UnknownNameNotFound ==
    [][(/\ last'.op = "shortestPath"
        /\ (~hasLocation(G, last'.a) \/ ~hasLocation(G, last'.b)))
       => /\ last'.returns
          /\ ~last'.ret
          /\ last'.path = <<>>
          /\ last'.dist = INF
          /\ UNCHANGED graphVars]_vars

\* shortestPath was called on a graph with an edge, from an existing
\* location to a name that matches no location in any letter case
C11_Witness ==
    /\ last.op = "shortestPath"
    /\ hasLocation(G, last.a)
    /\ ~hasLocation(G, last.b)
    /\ adj[Resolve(last.a) + 1] # <<>>
    /\ ~last.ret

\* C13: shortestPath returns a result for every source and dest in every
\* graph built by addLocation and addEdge.
C13_ShortestPathTerminates ==
    last.op = "shortestPath" => last.returns

(***************************************************************************)
(* Properties of the traversals, checked under SpecTraverse and            *)
(* SpecTraverseLoops.                                                      *)
(***************************************************************************)
\* the ids one edge away from an id of S
Neighbours(S) == UNION {{e[1] : e \in Entries(adj, u)} : u \in S}

RECURSIVE Closure(_)
\* the least set of ids that holds S and is closed under Neighbours
Closure(S) ==
    IF Neighbours(S) \subseteq S THEN S ELSE Closure(S \cup Neighbours(S))

\* the ids reachable from id s through the adjacency
ReachableFrom(s) == Closure({s})

Connected == \A u \in Ids : ReachableFrom(u) = Ids

\* the number of positions of the sequence of names seq that hold name
Occurrences(seq, name) == Cardinality({i \in 1..Len(seq) : seq[i] = name})

Traversed == last.op \in {"BFS", "DFS"} /\ hasLocation(G, last.a)

\* C12: on a connected graph, BFS(start) and DFS(start) from an existing
\* start each contain every location of the graph exactly once.
C12_TraversalComplete ==
    (Traversed /\ Connected)
    => /\ Len(last.result) = Len(nodeToName)
       /\ \A u \in Ids : Occurrences(last.result, nodeToName[u + 1]) = 1

\* a DFS of a connected graph of WalkNodes locations, started from a
\* location with at least two neighbours that is not the first inserted
C12_Witness ==
    /\ last.op = "DFS"
    /\ hasLocation(G, last.a)
    /\ Connected
    /\ Len(nodeToName) = WalkNodes
    /\ Resolve(last.a) # 0
    /\ Cardinality(Neighbours({Resolve(last.a)})) >= 2
    /\ Len(last.result) = WalkNodes

\* C17: isConnected() is true exactly when every location is reachable from
\* the first-inserted location (id 0); on the empty graph it is true.
C17_IsConnected ==
    last.op = "isConnected"
    => IF nodeToName = <<>> THEN last.ret
       ELSE last.ret <=> (ReachableFrom(0) = Ids)

\* isConnected answered false on a graph whose first location has a
\* neighbour and whose last location has none
C17_Witness ==
    /\ last.op = "isConnected"
    /\ ~last.ret
    /\ Len(nodeToName) = MaxNodes
    /\ Cardinality(ReachableFrom(0)) = MaxNodes - 1
    /\ adj[MaxNodes] = <<>>

\* C18: addEdge(nameA, nameB, w) creates each endpoint that no existing
\* location matches case-insensitively and leaves the existing locations in
\* place; afterwards both names resolve and each endpoint's adjacency list
\* holds an entry to the other with weight w.
C18_AddEdgeCreatesEndpoints ==
    [][last'.op = "addEdge"
       => LET g0 == G
              g  == Graph(nameToNode', nodeToName', adj')
              a  == last'.a
              b  == last'.b
              w  == last'.w
              n  == Len(nodeToName)
          IN  /\ hasLocation(g, a)
              /\ hasLocation(g, b)
              /\ SubSeq(g.nodeToName, 1, n) = nodeToName
              /\ LET u == g.nameToNode[getActualLocationName(g, a)]
                     v == g.nameToNode[getActualLocationName(g, b)]
                 IN  /\ hasLocation(g0, a) <=> u < n
                     /\ hasLocation(g0, b) <=> v < n
                     /\ g.nodeToName[u + 1] = getActualLocationName(g, a)
                     /\ g.nodeToName[v + 1] = getActualLocationName(g, b)
                     /\ <<v, w>> \in Entries(g.adj, u)
                     /\ <<u, w>> \in Entries(g.adj, v)]_vars

\* an addEdge has created both of its endpoints next to an existing location
C18_Witness ==
    /\ last.op = "addEdge"
    /\ last.made = 2
    /\ Len(nodeToName) = MaxNodes
    /\ hasLocation(G, last.a)
    /\ hasLocation(G, last.b)
    /\ Resolve(last.a) # Resolve(last.b)

\* the fewest edges of a walk from id s to id t: the first k for which t is
\* within k edges of s
RECURSIVE Within(_, _)
Within(s, k) ==
    IF k = 0 THEN {s} ELSE Within(s, k - 1) \cup Neighbours(Within(s, k - 1))

Hops(s, t) ==
    CHOOSE k \in 0..Len(nodeToName) :
        /\ t \in Within(s, k)
        /\ \A j \in 0..(k - 1) : t \notin Within(s, j)

\* C19: BFS(start) returns the start first and the locations in
\* non-decreasing order of their hop distance from start; when start matches
\* no location it returns the empty sequence.
C19_BFSLevelOrder ==
    last.op = "BFS"
    => IF ~hasLocation(G, last.a) THEN last.result = <<>>
       ELSE LET s    == Resolve(last.a)
                r    == last.result
                d(i) == Hops(s, nameToNode[r[i]])
            IN  /\ r # <<>>
                /\ r[1] = nodeToName[s + 1]
                /\ \A i, j \in 1..Len(r) : i < j => d(i) <= d(j)

\* a BFS over three levels whose middle level holds two locations, the one
\* queued last being the one that leads on
C19_Witness ==
    /\ last.op = "BFS"
    /\ hasLocation(G, last.a)
    /\ Len(last.result) = 4
    /\ LET s == Resolve(last.a)
           r == last.result
       IN  /\ Hops(s, nameToNode[r[2]]) = 1
           /\ Hops(s, nameToNode[r[3]]) = 1
           /\ Hops(s, nameToNode[r[4]]) = 2
           /\ CountTo(adj, nameToNode[r[3]], nameToNode[r[4]]) > 0
           /\ CountTo(adj, nameToNode[r[2]], nameToNode[r[4]]) = 0

\* a BFS from a name that matches no location of a non-empty graph
C19_WitnessAbsent ==
    /\ last.op = "BFS"
    /\ ~hasLocation(G, last.a)
    /\ nodeToName # <<>>
    /\ last.result = <<>>

\* C20: on any graph, BFS(start) and DFS(start) from an existing start
\* contain exactly the locations reachable from start, each once.
C20_TraversalReachableOnly ==
    Traversed
    => LET r == last.result
       IN  /\ {r[i] : i \in 1..Len(r)}
              = {nodeToName[u + 1] : u \in ReachableFrom(Resolve(last.a))}
           /\ \A i, j \in 1..Len(r) : i # j => r[i] # r[j]

\* a BFS of a graph of two components, started from a location that has a
\* self-loop and a neighbour
C20_Witness ==
    /\ last.op = "BFS"
    /\ hasLocation(G, last.a)
    /\ Len(nodeToName) = MaxNodes
    /\ Len(last.result) = 2
    /\ CountTo(adj, Resolve(last.a), Resolve(last.a)) > 0

(***************************************************************************)
(* Properties of shortestPath taken step by step, checked under            *)
(* SpecDijkstra.                                                           *)
(***************************************************************************)
\* C21: during shortestPath a location that has been popped and marked
\* visited keeps its dist[] and parent[] entries through every later
\* iteration, and a later queue entry for it is discarded on pop: that
\* iteration changes nothing but the queue.
C21_FinalizedFrozen ==
    [][(run.active /\ run'.active)
       => /\ \A i \in 1..Len(nodeToName) :
                 run.st.visited[i]
                 => /\ run'.st.visited[i]
                    /\ run'.st.dist[i] = run.st.dist[i]
                    /\ run'.st.parent[i] = run.st.parent[i]
          /\ (last'.op = "pop" /\ last'.stale)
             => /\ run'.st.dist = run.st.dist
                /\ run'.st.parent = run.st.parent
                /\ run'.st.visited = run.st.visited
                /\ run'.st.pq = run.st.pq \ {<<last'.d, last'.u>>}]_vars

\* a stale queue entry of a visited location has been popped on a graph
\* whose weights are all positive
C21_StalePopped ==
    /\ last.op = "pop"
    /\ last.stale
    /\ AllWeightsPositive

(***************************************************************************)
(* Further properties of the graph, checked under SpecGraph.               *)
(***************************************************************************)
RECURSIVE ChainLength(_, _, _)
\* the number of ids on the parent[] chain from cur back to -1 (at most
\* steps of them are followed)
ChainLength(parent, cur, steps) ==
    IF cur = -1 \/ steps = 0 THEN 0
    ELSE 1 + ChainLength(parent, parent[cur + 1], steps - 1)

\* C22: when shortestPath succeeds, pathOut starts with the source's name,
\* ends with the dest's name, joins consecutive elements by an edge, has one
\* element per location of the parent[] chain, and its edge weights sum to
\* distOut, whatever names addLocation has accepted.
C22_PathIsReal ==
    (last.op = "shortestPath" /\ last.returns /\ last.ret)
    => LET s      == Resolve(last.a)
           t      == Resolve(last.b)
           p      == last.path
           id(i)  == nameToNode[p[i]]
           parent == DijkstraLoop(G, DijkstraInit(G, s)).parent
       IN  /\ p # <<>>
           /\ p[1] = nodeToName[s + 1]
           /\ p[Len(p)] = nodeToName[t + 1]
           /\ \A i \in 1..(Len(p) - 1) : CountTo(adj, id(i), id(i + 1)) > 0
           /\ Len(p) = ChainLength(parent, t, Len(nodeToName))
           /\ PathWeight([i \in 1..Len(p) |-> id(i)]) = last.dist

(***************************************************************************)
(* Further properties of the AVL tree, checked under SpecAVL.              *)
(***************************************************************************)
RECURSIVE HeightsFresh(_)
\* every node's height field is 1 + the larger of its children's fields
HeightsFresh(node) ==
    \/ node = Nil
    \/ /\ node[5] = 1 + max(getHeight(Left(node)), getHeight(Right(node)))
       /\ HeightsFresh(Left(node))
       /\ HeightsFresh(Right(node))

\* C23: after any sequence of insert and remove calls the height stored in
\* every node is 1 + max(height(left), height(right)), with height(nil) = 0.
C23_HeightsFresh == HeightsFresh(root) /\ getHeight(root) = TrueHeight(root)

\* a remove has replaced a node of two children by its successor in a tree
\* that is left with height three
C23_Witness ==
    /\ last.op = "remove"
    /\ last.ret
    /\ last.two
    /\ getHeight(root) = 3
    /\ Size(root) = NumKeys - 1

\* C24: location ids are sequential and stable.  Every step keeps the id of
\* every name and the name of every id, and leaves the three tables with
\* the same number of entries and nameToNode[nodeToName[i]] = i, so a new
\* location can only take the next id.
C24_IdsSequentialStable ==
    [][/\ \A k \in DOMAIN nameToNode :
              k \in DOMAIN nameToNode' /\ nameToNode'[k] = nameToNode[k]
       /\ SubSeq(nodeToName', 1, Len(nodeToName)) = nodeToName
       /\ Len(adj') = Len(nodeToName')
       /\ Cardinality(DOMAIN nameToNode') = Len(nodeToName')
       /\ \A i \in 1..Len(nodeToName') :
              /\ nodeToName'[i] \in DOMAIN nameToNode'
              /\ nameToNode'[nodeToName'[i]] = i - 1]_vars

\* addLocation has created the last location the bounds allow, under a name
\* with a capital letter, on a graph that already has an edge
C24_Witness ==
    /\ last.op = "addLocation"
    /\ last.id = MaxNodes - 1
    /\ nodeToName[MaxNodes] # toLower(nodeToName[MaxNodes])
    /\ AdjEntries(adj) > 0

(***************************************************************************)
(* Properties of the queries of the graph, checked under SpecQueries.      *)
(***************************************************************************)
GraphQueries ==
    {"shortestPath", "BFS", "DFS", "isConnected", "hasLocation",
     "getActualLocationName", "getNodeCount", "getEdgeCount"}

\* C28: the queries of the graph, called with any name, leave nameToNode,
\* nodeToName and every adjacency list as they were.
C28_QueriesReadOnly ==
    [][last'.op \in GraphQueries => UNCHANGED graphVars]_vars

\* a DFS has been asked for from a name that matches no location of a graph
\* that has locations and an edge
C28_Witness ==
    /\ last.op = "DFS"
    /\ ~hasLocation(G, last.a)
    /\ AdjEntries(adj) > 0
    /\ last.a \notin DOMAIN nameToNode

(***************************************************************************)
(* Properties of the front end's queue, checked under SpecQueue.           *)
(***************************************************************************)
\* C25: the queue is FIFO.  processedItems followed by queue is the record
\* of the items enqueued, in order: enqueue adds its item at the end of it
\* and dequeue and processAll leave it as it is; dequeue moves exactly the
\* front item, processAll moves every item and empties the queue, and on an
\* empty queue neither changes anything.
C25_QueueFIFO ==
    [][LET all  == processedItems \o queue
           all2 == processedItems' \o queue'
       IN  /\ last'.op = "enqueue"
              => /\ processedItems' = processedItems
                 /\ all2 = IF last'.ret THEN Append(all, trim(last'.text))
                           ELSE all
           /\ last'.op = "dequeue"
              => /\ all2 = all
                 /\ IF queue = <<>> THEN queue' = <<>>
                    ELSE Len(queue') = Len(queue) - 1
           /\ last'.op = "processAll"
              => /\ all2 = all
                 /\ queue' = <<>>]_vars

\* a dequeue has moved the front one of several different queued items
\* behind an item processed before
C25_Witness ==
    /\ last.op = "dequeue"
    /\ last.ret
    /\ Len(processedItems) >= 2
    /\ Len(queue) >= 1
    /\ processedItems[Len(processedItems)] # queue[1]

(***************************************************************************)
(* Properties of CustomHashTable, checked under SpecHash.                  *)
(***************************************************************************)
\* what search answers for every key, on the members t, cap
Lookup(t, cap) == [k \in HashKeys |-> htSearch(t, cap, k)]

\* C26: CustomHashTable behaves as a map.  insert(k, v) returns true exactly
\* when search did not find k and makes search(k) answer v; remove(k)
\* returns true exactly when search found k and makes search(k) answer
\* not-found; neither changes the answer for another key, search changes
\* nothing, and getSize() is the number of keys search finds.
C26_BehavesAsMap ==
    [][LET before == Lookup(table, capacity)
           after  == Lookup(table', capacity')
       IN  /\ last'.op = "htInsert"
              => /\ last'.ret = ~before[last'.key][1]
                 /\ after = [before EXCEPT
                                ![last'.key] = <<TRUE, last'.value>>]
           /\ last'.op = "htRemove"
              => /\ last'.ret = before[last'.key][1]
                 /\ after = [before EXCEPT ![last'.key] = <<FALSE, 0>>]
           /\ last'.op = "htSearch"
              => /\ last'.ret = before[last'.key]
                 /\ UNCHANGED hashVars
           /\ size' = Cardinality({k \in HashKeys : after[k][1]})]_vars

\* an insert has overwritten the value of a key that sits behind another
\* node in its chain, after the table has been rehashed
C26_Witness ==
    /\ last.op = "htInsert"
    /\ ~last.ret
    /\ capacity > InitialCapacity
    /\ LET chain == table[hashFunction(last.key, capacity) + 1]
       IN  /\ Len(chain) >= 2
           /\ chain[1][1] # last.key
    /\ htSearch(table, capacity, last.key) = <<TRUE, last.value>>

RECURSIVE Chained(_)
\* the nodes of all chains of t, stringed together
Chained(t) == IF t = <<>> THEN <<>> ELSE t[1] \o Chained(Tail(t))

\* the (key, value) entries the table holds
HashEntries(t) == {Chained(t)[i] : i \in 1..Len(Chained(t))}

\* C27: every node sits in the bucket hashFunction gives its key with the
\* current capacity and no key is in two nodes; the capacity changes only in
\* an insert of an absent key made when size / capacity >= 0.75, it doubles,
\* and the entries afterwards are those before plus the new one.
C27_BucketsAndRehash ==
    [][/\ Len(table') = capacity'
       /\ \A b \in 1..Len(table') : \A i \in 1..Len(table'[b]) :
              hashFunction(table'[b][i][1], capacity') = b - 1
       /\ \A i, j \in 1..Len(Chained(table')) :
              i # j => Chained(table')[i][1] # Chained(table')[j][1]
       /\ capacity' # capacity
          => /\ last'.op = "htInsert"
             /\ last'.ret
             /\ htSearch(table, capacity, last'.key) = <<FALSE, 0>>
             /\ 4 * size >= 3 * capacity
             /\ capacity' = 2 * capacity
             /\ HashEntries(table')
                = HashEntries(table) \cup {<<last'.key, last'.value>>}
       /\ (last'.op = "htInsert" /\ last'.ret /\ 4 * size >= 3 * capacity)
          => capacity' = 2 * capacity]_vars

\* an insert has rehashed a table in which two keys shared a bucket, and
\* has parted them
C27_Witness ==
    /\ last.op = "htInsert"
    /\ last.ret
    /\ capacity = 4 * InitialCapacity
    /\ size = NumHashKeys
    /\ \A b \in 1..Len(table) : Len(table[b]) <= 1

(***************************************************************************)
(* Properties of the Trie, checked under SpecTrie.                         *)
(***************************************************************************)
RECURSIVE Normalize(_)
\* a word with its non-letters dropped and its letters lowercased
Normalize(w) ==
    IF w = <<>> THEN <<>>
    ELSE IF isalpha(w[1]) THEN <<tolower(w[1])>> \o Normalize(Tail(w))
    ELSE Normalize(Tail(w))

StartsWith(w, p) == Len(p) <= Len(w) /\ SubSeq(w, 1, Len(p)) = p

RECURSIVE Holds(_, _)
\* node's subtree marks the end of the lowercase word w
Holds(node, w) ==
    IF w = <<>> THEN node.isEnd
    ELSE /\ (w[1] - 97) \in DOMAIN node.children
         /\ Holds(node.children[w[1] - 97], Tail(w))

RECURSIVE EndCount(_)
\* the number of nodes of a subtree that mark the end of a word
EndCount(node) ==
    LET RECURSIVE Sum(_)
        Sum(S) == IF S = {} THEN 0
                  ELSE LET i == CHOOSE x \in S : TRUE
                       IN  EndCount(node.children[i]) + Sum(S \ {i})
    IN  (IF node.isEnd THEN 1 ELSE 0) + Sum(DOMAIN node.children)

\* the normalized forms of the words offered, and the ones a trie holds
NormalWords == {Normalize(w) : w \in Words}

Stored(node) == {w \in NormalWords : Holds(node, w)}

\* C29: the trie holds exactly the normalized forms of the words inserted
\* (an insert adds the normalized form of its word and nothing else), and
\* suggest(prefix) returns exactly the held words that start with the
\* normalized prefix, each once, so none when there is none.
C29_SuggestExact ==
    [][/\ last'.op = "trieInsert"
          => /\ Stored(trie') = Stored(trie) \cup {Normalize(last'.word)}
             /\ EndCount(trie') = Cardinality(Stored(trie'))
       /\ last'.op = "suggest"
          => LET out == last'.out
             IN  /\ UNCHANGED trie
                 /\ {out[i] : i \in 1..Len(out)}
                    = {w \in Stored(trie) :
                          StartsWith(w, Normalize(last'.prefix))}
                 /\ \A i, j \in 1..Len(out) : i # j => out[i] # out[j]]_vars

\* suggest has answered a prefix that has a capital letter and a non-letter
\* with two or more words
C29_Witness ==
    /\ last.op = "suggest"
    /\ last.prefix # Normalize(last.prefix)
    /\ \E i \in 1..Len(last.prefix) : ~isalpha(last.prefix[i])
    /\ Len(last.out) >= 2

(***************************************************************************)
(* Properties of BusRoute, checked under SpecRoute.                        *)
(***************************************************************************)
\* t is s read backwards
IsReverseOf(t, s) ==
    /\ Len(t) = Len(s)
    /\ \A i \in 1..Len(s) : t[i] = s[Len(s) + 1 - i]

\* C30: reverseRoute leaves the stops in exactly the reverse order, so a
\* second reverseRoute restores the list; addStop appends its stop at the
\* tail; deleteStop removes the first stop of the given name and no other,
\* and returns false and changes nothing when no stop has that name.
C30_ReverseAndEdit ==
    [][/\ last'.op = "reverseRoute"
          => /\ IsReverseOf(head', head)
             /\ reverseRoute(head') = head
       /\ last'.op = "addStop"
          => head' = head \o <<last'.n>>
       /\ last'.op = "deleteStop"
          => IF \A i \in 1..Len(head) : head[i] # last'.n
             THEN ~last'.ret /\ head' = head
             ELSE /\ last'.ret
                  /\ \E i \in 1..Len(head) :
                         /\ head[i] = last'.n
                         /\ \A j \in 1..(i - 1) : head[j] # last'.n
                         /\ head' = [k \in 1..(Len(head) - 1) |->
                                        IF k < i THEN head[k]
                                        ELSE head[k + 1]]]_vars

\* reverseRoute has reversed a full route that names a stop twice and does
\* not read the same backwards
C30_Witness ==
    /\ last.op = "reverseRoute"
    /\ Len(head) = MaxStops
    /\ Cardinality({head[i] : i \in 1..Len(head)}) < Len(head)
    /\ ~IsReverseOf(head, head)

====
